---- MODULE Spec2Model ----
(***************************************************************************)
(* Mind-map store, visibility resolver, tree layout and expand protocol   *)
(* of the document explorer front end (frontend/src/store/mindMapStore.ts *)
(* and frontend/src/hooks/useMindMap.ts), with the canvas that renders    *)
(* the flow nodes and the App handlers that open and close the view.      *)
(***************************************************************************)
EXTENDS Integers, Sequences, FiniteSets, TLC

(* ------------------------------------------------------------------ *)
(* Bounds of the model                                                 *)
(* ------------------------------------------------------------------ *)

\* Largest number of expandNode calls outstanding at a time.
MaxInFlight == 2

\* Number of times the server-side content of the document is edited.
MaxVersion == 1

\* Number of nodes the backend may remove from the document.
MaxPruned == 1

\* Number of documents uploaded.
MaxUploads == 2

\* Number of re-renders of the upload view followed per mount.
MaxRenders == 2

\* The counts of callback calls are followed up to this number.
MaxCalls == 2

(* ------------------------------------------------------------------ *)
(* Program constants: LAYOUT_CONFIG and the depth asked of getMindMap  *)
(* ------------------------------------------------------------------ *)

nodeWidth == 280
nodeHeight == 140
horizontalSpacing == 60
verticalSpacing == 80
LoadDepth == 2

(* ------------------------------------------------------------------ *)
(* Node identifiers and the documents the server holds                 *)
(* ------------------------------------------------------------------ *)

NULL == "null"

Ids == {"r", "a", "b", "c", "d", "e", "f", "g"}

\* The ids the backend gives to uploaded documents, in the order of upload.
UploadIds == 1..MaxUploads

\* A Document | null that is null.
NoDocument == [id |-> 0, status |-> "none"]

\* A MindMapNode: the fields the store, resolver and layout read, and one
\* content field standing for title/summary/full_content.
MkNode(id, parent, type, depth, children, content) ==
  [id |-> id, parent_id |-> parent, node_type |-> type, depth |-> depth,
   children_ids |-> children, has_children |-> children # <<>>,
   content |-> content]

\* Document 1: r -> [a, b], a -> [c, d].
Tree1 ==
  [i \in {"r", "a", "b", "c", "d"} |->
     CASE i = "r" -> MkNode("r", NULL, "root", 0, <<"a", "b">>, 0)
       [] i = "a" -> MkNode("a", "r", "section", 1, <<"c", "d">>, 0)
       [] i = "b" -> MkNode("b", "r", "section", 1, <<>>, 0)
       [] i = "c" -> MkNode("c", "a", "subsection", 2, <<>>, 0)
       [] i = "d" -> MkNode("d", "a", "subsection", 2, <<>>, 0)]

\* Document 2: r -> [a, b], b -> [c], c -> [d].
Tree2 ==
  [i \in {"r", "a", "b", "c", "d"} |->
     CASE i = "r" -> MkNode("r", NULL, "root", 0, <<"a", "b">>, 0)
       [] i = "a" -> MkNode("a", "r", "section", 1, <<>>, 0)
       [] i = "b" -> MkNode("b", "r", "section", 1, <<"c">>, 0)
       [] i = "c" -> MkNode("c", "b", "subsection", 2, <<"d">>, 0)
       [] i = "d" -> MkNode("d", "c", "topic", 3, <<>>, 0)]

\* Document 3: r -> [a], a -> [b], b -> [c, d], d -> [e, f].
Tree3 ==
  [i \in {"r", "a", "b", "c", "d", "e", "f"} |->
     CASE i = "r" -> MkNode("r", NULL, "root", 0, <<"a">>, 0)
       [] i = "a" -> MkNode("a", "r", "section", 1, <<"b">>, 0)
       [] i = "b" -> MkNode("b", "a", "subsection", 2, <<"c", "d">>, 0)
       [] i = "c" -> MkNode("c", "b", "topic", 3, <<>>, 0)
       [] i = "d" -> MkNode("d", "b", "topic", 3, <<"e", "f">>, 0)
       [] i = "e" -> MkNode("e", "d", "detail", 4, <<>>, 0)
       [] i = "f" -> MkNode("f", "d", "detail", 4, <<>>, 0)]

\* A second document, with ids of its own: e -> [f], f -> [g].
TreeB ==
  [i \in {"e", "f", "g"} |->
     CASE i = "e" -> MkNode("e", NULL, "root", 0, <<"f">>, 0)
       [] i = "f" -> MkNode("f", "e", "section", 1, <<"g">>, 0)
       [] i = "g" -> MkNode("g", "f", "subsection", 2, <<>>, 0)]

\* Document 4: r -> [a, b], a -> [c]; b is served with has_children = true
\* and an empty children_ids list.
Tree4 ==
  [i \in {"r", "a", "b", "c"} |->
     CASE i = "r" -> MkNode("r", NULL, "root", 0, <<"a", "b">>, 0)
       [] i = "a" -> MkNode("a", "r", "section", 1, <<"c">>, 0)
       [] i = "b" -> [MkNode("b", "r", "section", 1, <<>>, 0) EXCEPT !.has_children = TRUE]
       [] i = "c" -> MkNode("c", "a", "subsection", 2, <<>>, 0)]

ServerTrees == {Tree1, Tree2}

(* ------------------------------------------------------------------ *)
(* Records kept as JavaScript objects                                  *)
(* ------------------------------------------------------------------ *)

\* nodesData is a Record<string, MindMapNode>; its keys keep insertion order
\* (Object.values), so it is a sequence of nodes with distinct ids.
Keys(nd) == {nd[i].id : i \in 1..Len(nd)}

HasKey(nd, id) == id \in Keys(nd)

IndexOf(nd, id) == CHOOSE i \in 1..Len(nd) : nd[i].id = id

Get(nd, id) == nd[IndexOf(nd, id)]

\* rec[id] read as a condition: undefined and false are both falsy.
Truthy(rec, id) == id \in DOMAIN rec /\ rec[id]

\* { ...rec, [id]: v }
Put(rec, id, v) == [k \in (DOMAIN rec) \cup {id} |-> IF k = id THEN v ELSE rec[k]]

EmptyRec == [k \in {} |-> TRUE]

(* ------------------------------------------------------------------ *)
(* mindMapStore.ts: the store's setters                                *)
(* ------------------------------------------------------------------ *)

\* newNodesData[node.id] = node: an existing key keeps its place and takes the
\* new value, a new key is appended.
SetEntry(nd, node) ==
  IF HasKey(nd, node.id)
    THEN [nd EXCEPT ![IndexOf(nd, node.id)] = node]
    ELSE Append(nd, node)

\* A setter that replaces the record by the nodes it is given.
AddNodesData_Replace(nd, nodes) == nodes

RECURSIVE AddNodesData(_, _)
AddNodesData(nd, nodes) ==
  IF nodes = <<>> THEN nd
  ELSE AddNodesData(SetEntry(nd, Head(nodes)), Tail(nodes))

\* A toggle whose collapse also clears the entries of all other nodes.
ToggleNodeExpanded_CollapseAll(ex, nodeId) ==
  IF Truthy(ex, nodeId)
    THEN [k \in (DOMAIN ex) \cup {nodeId} |-> FALSE]
    ELSE Put(ex, nodeId, TRUE)

ToggleNodeExpanded(ex, nodeId) == Put(ex, nodeId, ~Truthy(ex, nodeId))

\* A setter that marks every node expanded.
SetExpandedNodes_Everything(nodeIds) == [k \in Ids |-> TRUE]

SetExpandedNodes(nodeIds) == [k \in {nodeIds[i] : i \in 1..Len(nodeIds)} |-> TRUE]

SetNodeLoading(ld, nodeId, loading) == Put(ld, nodeId, loading)

(* ------------------------------------------------------------------ *)
(* useMindMap.ts: visibility resolver                                  *)
(* ------------------------------------------------------------------ *)

IsVisibleNode(node, ex) ==
  \/ node.node_type = "root"
  \/ (node.parent_id # NULL /\ Truthy(ex, node.parent_id))

GetVisibleNodes(allNodes, ex) ==
  SelectSeq(allNodes, LAMBDA node : IsVisibleNode(node, ex))

(* ------------------------------------------------------------------ *)
(* useMindMap.ts: tree layout                                          *)
(* ------------------------------------------------------------------ *)

\* children_ids mapped through nodeMap, undefined entries filtered out.
RECURSIVE MapDefined(_, _)
MapDefined(nodeMap, ids) ==
  IF ids = <<>> THEN <<>>
  ELSE IF HasKey(nodeMap, Head(ids))
    THEN <<Get(nodeMap, Head(ids))>> \o MapDefined(nodeMap, Tail(ids))
    ELSE MapDefined(nodeMap, Tail(ids))

GetVisibleChildren(nodeMap, ex, nodeId) ==
  IF ~HasKey(nodeMap, nodeId) \/ ~Truthy(ex, nodeId) THEN <<>>
  ELSE MapDefined(nodeMap, Get(nodeMap, nodeId).children_ids)

RECURSIVE GetSubtreeWidth(_, _, _)
RECURSIVE SumWidths(_, _, _, _)

\* children.reduce((sum, child) => sum + getSubtreeWidth(child.id) + spacing, acc)
SumWidths(nodeMap, ex, children, acc) ==
  IF children = <<>> THEN acc
  ELSE SumWidths(nodeMap, ex, Tail(children),
                 acc + GetSubtreeWidth(nodeMap, ex, Head(children).id) + horizontalSpacing)

\* A maximum that always gives its first argument.
Max_First(x, y) == x

Max(x, y) == IF x >= y THEN x ELSE y

GetSubtreeWidth(nodeMap, ex, nodeId) ==
  LET children == GetVisibleChildren(nodeMap, ex, nodeId)
  IN  IF Len(children) = 0 THEN nodeWidth
      ELSE Max(nodeWidth, SumWidths(nodeMap, ex, children, -horizontalSpacing))

RECURSIVE PositionNode(_, _, _, _, _, _)
RECURSIVE PlaceChildren(_, _, _, _, _, _, _)

\* positions.set(id, v) on a Map: the later value replaces the earlier one.
MapSet(positions, id, v) == Put(positions, id, v)

\* A forEach that puts each child at the left edge of its slot.
RECURSIVE PlaceChildren_AtSlotStart(_, _, _, _, _, _, _)
PlaceChildren_AtSlotStart(nodeMap, ex, children, i, currentX, childY, positions) ==
  IF i > Len(children) THEN positions
  ELSE LET childWidth == GetSubtreeWidth(nodeMap, ex, children[i].id)
       IN  PlaceChildren_AtSlotStart(nodeMap, ex, children, i + 1,
                         currentX + childWidth + horizontalSpacing, childY,
                         PositionNode(nodeMap, ex, children[i].id, currentX, childY, positions))

\* The forEach of positionNode over the children, from the i-th child on.
PlaceChildren(nodeMap, ex, children, i, currentX, childY, positions) ==
  IF i > Len(children) THEN positions
  ELSE LET childWidth == GetSubtreeWidth(nodeMap, ex, children[i].id)
           childX == currentX + childWidth \div 2
       IN  PlaceChildren(nodeMap, ex, children, i + 1,
                         currentX + childWidth + horizontalSpacing, childY,
                         PositionNode(nodeMap, ex, children[i].id, childX, childY, positions))

PositionNode(nodeMap, ex, nodeId, x, y, positions) ==
  IF ~HasKey(nodeMap, nodeId) THEN positions
  ELSE LET placed == MapSet(positions, nodeId, [x |-> x, y |-> y])
           children == GetVisibleChildren(nodeMap, ex, nodeId)
           totalWidth == SumWidths(nodeMap, ex, children, -horizontalSpacing)
       IN  IF Len(children) = 0 THEN placed
           ELSE PlaceChildren(nodeMap, ex, children, 1, x - totalWidth \div 2,
                              y + nodeHeight + verticalSpacing, placed)

Roots(nodes) == SelectSeq(nodes, LAMBDA n : n.node_type = "root")

CalculateTreeLayout(visibleNodes, ex) ==
  IF Roots(visibleNodes) = <<>> THEN EmptyRec
  ELSE PositionNode(visibleNodes, ex, Head(Roots(visibleNodes)).id, 0, 0, EmptyRec)

(* ------------------------------------------------------------------ *)
(* useMindMap.ts: render projection                                    *)
(* ------------------------------------------------------------------ *)

PositionOrDefault(positions, id) ==
  IF id \in DOMAIN positions THEN positions[id] ELSE [x |-> 0, y |-> 0]

FlowNodesOf(visibleNodes, positions) ==
  [i \in 1..Len(visibleNodes) |->
     [id |-> visibleNodes[i].id,
      position |-> PositionOrDefault(positions, visibleNodes[i].id),
      data |-> visibleNodes[i]]]

\* An edge for every node that names a parent, drawn or not.
FlowEdgesOf_AnyParent(visibleNodes) ==
  LET linked == SelectSeq(visibleNodes, LAMBDA node : node.parent_id # NULL)
  IN  [i \in 1..Len(linked) |-> [source |-> linked[i].parent_id, target |-> linked[i].id]]

FlowEdgesOf(visibleNodes) ==
  LET linked == SelectSeq(visibleNodes,
                  LAMBDA node : node.parent_id # NULL /\ HasKey(visibleNodes, node.parent_id))
  IN  [i \in 1..Len(linked) |-> [source |-> linked[i].parent_id, target |-> linked[i].id]]

BuildFlowElements(allNodes, ex) ==
  LET visibleNodes == GetVisibleNodes(allNodes, ex)
      positions == CalculateTreeLayout(visibleNodes, ex)
  IN  [flowNodes |-> FlowNodesOf(visibleNodes, positions),
       flowEdges |-> FlowEdgesOf(visibleNodes)]

(* ------------------------------------------------------------------ *)
(* State                                                               *)
(* ------------------------------------------------------------------ *)

VARIABLES
  serverTree,      \* the document the backend holds
  serverVersion,   \* the content version the backend currently serves
  view,            \* App: 'list' | 'mindmap'
  queryStatus,     \* the ['mindmap', documentId] query: idle, fetching, success, error
  nodesData,       \* store.nodesData
  expandedNodes,   \* store.expandedNodes
  loadingNodes,    \* store.loadingNodes
  flowNodes,       \* store.flowNodes
  flowEdges,       \* store.flowEdges
  inFlight,        \* expandNode calls issued and not yet settled, per node id
  nodes,           \* MindMapCanvasInner: the React Flow nodes on screen
  last,            \* the handler that ran last, its node, the rendering it started
                   \* from, and the handler before it when that ran on the same node
  document,          \* store.document
  backendStatus,     \* the backend: processing status of each uploaded document
  uploading,         \* uploadMutation.isPending
  uploadedDocument,  \* useDocumentUpload: the uploadedDocument state
  statusData,        \* the ['documentStatus', id] queries: their data, per id
  hasSetDocument,    \* useDocumentUpload: hasSetDocument.current
  hasCalledOnReady,  \* DocumentUpload: hasCalledOnReady.current
  refreshing,        \* App: handleDocumentReady calls waiting for getDocuments
  renders,           \* re-renders of DocumentUpload since it mounted
  readyCalls,        \* calls of onDocumentReady since DocumentUpload mounted
  setCalls           \* calls of setDocument since the last successful upload

\* The state of the hook and the component of the upload view.
hookVars == <<backendStatus, uploading, uploadedDocument, statusData, hasSetDocument,
              hasCalledOnReady, refreshing, renders, readyCalls, setCalls>>

uploadVars == <<document, hookVars>>

vars == <<serverTree, serverVersion, view, queryStatus, nodesData, expandedNodes,
          loadingNodes, flowNodes, flowEdges, inFlight, nodes, last, uploadVars>>

serverVars == <<serverTree, serverVersion>>
storeVars == <<nodesData, expandedNodes, loadingNodes, flowNodes, flowEdges>>

\* What is rendered: the position of each flow node, by id.
Rendering(fn) == [id \in {fn[i].id : i \in 1..Len(fn)} |-> fn[IndexOf(fn, id)].position]

Did(op, nodeId) ==
  [op |-> op, node |-> nodeId, before |-> Rendering(flowNodes),
   after |-> IF last.node = nodeId /\ nodeId # NULL THEN last.op ELSE "other"]

(* ------------------------------------------------------------------ *)
(* The backend (services/api.ts): getMindMap and expandNode            *)
(* ------------------------------------------------------------------ *)

ServerNode(id) == [serverTree[id] EXCEPT !.content = serverVersion]

\* The node as the backend served it when its content was at version v.
ServerNodeAt(id, v) == [serverTree[id] EXCEPT !.content = v]

\* The response of expandNode(nodeId) computed at content version v.
NodeExpandResponseAt(nodeId, v) ==
  [node |-> ServerNodeAt(nodeId, v),
   children |-> [i \in 1..Len(serverTree[nodeId].children_ids) |->
                   ServerNodeAt(serverTree[nodeId].children_ids[i], v)]]

\* Ids in breadth-first order of the documents above.
IdOrder == <<"r", "a", "b", "c", "d", "e", "f", "g">>

\* getMindMap(documentId, depth): the root and the levels below it, at least
\* the root's children and at most `depth` levels.
MindMapResponse(levels) ==
  LET within == SelectSeq(IdOrder,
                   LAMBDA id : id \in DOMAIN serverTree /\ serverTree[id].depth <= levels)
  IN  [nodes |-> [i \in 1..Len(within) |-> ServerNode(within[i])], root_id |-> "r"]

ChildNodes(ids) == [i \in 1..Len(ids) |-> ServerNode(ids[i])]

\* expandNode(nodeId): the up-to-date node and its full list of children.
NodeExpandResponse(nodeId) ==
  [node |-> ServerNode(nodeId), children |-> ChildNodes(serverTree[nodeId].children_ids)]

\* Subsequences of a sequence, order kept.
RECURSIVE SubSeqs(_)
SubSeqs(seq) ==
  IF seq = <<>> THEN {<<>>}
  ELSE LET rest == SubSeqs(Tail(seq))
       IN  rest \cup {<<Head(seq)>> \o t : t \in rest}

\* A backend that may leave children out of the response.
LossyExpandResponses(nodeId) ==
  {[node |-> ServerNode(nodeId), children |-> ChildNodes(kept)] :
     kept \in SubSeqs(serverTree[nodeId].children_ids)}

(* ------------------------------------------------------------------ *)
(* MindMapCanvasInner: syncing the React Flow nodes                    *)
(* ------------------------------------------------------------------ *)

\* The effect that follows a new flowNodes array; an empty array is skipped.
SyncNodes(current, fn, ex, ld) ==
  IF Len(fn) = 0 THEN current
  ELSE [i \in 1..Len(fn) |->
          [id |-> fn[i].id,
           has_children |-> fn[i].data.has_children,
           isExpanded |-> Truthy(ex, fn[i].id),
           isLoading |-> Truthy(ld, fn[i].id)]]

Mounted == view = "mindmap"

\* The expand button of MindMapNode: shown when has_children, disabled when isLoading.
ExpandButtonEnabled(nodeId) ==
  /\ Mounted
  /\ queryStatus = "success"
  /\ \E i \in 1..Len(nodes) :
        nodes[i].id = nodeId /\ nodes[i].has_children /\ ~nodes[i].isLoading

(* ------------------------------------------------------------------ *)
(* Init                                                                *)
(* ------------------------------------------------------------------ *)

InitWith(trees) ==
  /\ serverTree \in trees
  /\ serverVersion = 0
  /\ view = "list"
  /\ queryStatus = "idle"
  /\ nodesData = <<>>
  /\ expandedNodes = EmptyRec
  /\ loadingNodes = EmptyRec
  /\ flowNodes = <<>>
  /\ flowEdges = <<>>
  /\ inFlight = [id \in Ids |-> 0]
  /\ nodes = <<>>
  /\ last = [op |-> "init", node |-> NULL, before |-> EmptyRec,
             after |-> "other"]
  /\ document = NoDocument
  /\ backendStatus = [id \in UploadIds |-> "absent"]
  /\ uploading = FALSE
  /\ uploadedDocument = NoDocument
  /\ statusData = [id \in UploadIds |-> "none"]
  /\ hasSetDocument = FALSE
  /\ hasCalledOnReady = FALSE
  /\ refreshing = 0
  /\ renders = 0
  /\ readyCalls = 0
  /\ setCalls = 0

Init == InitWith(ServerTrees)

\* The backend holds the deeper document 3.
InitDeep == InitWith({Tree3})

\* The backend holds document 4.
InitStub == InitWith({Tree4})

(* ------------------------------------------------------------------ *)
(* App: opening and leaving the mind-map view                          *)
(* ------------------------------------------------------------------ *)

\* handleSelectDocument: the canvas mounts; useQuery fetches unless the query
\* already holds data (staleTime: Infinity) or is fetching.
HandleSelectDocument ==
  /\ view = "list"
  /\ view' = "mindmap"
  /\ queryStatus' = IF queryStatus \in {"idle", "error"} THEN "fetching" ELSE queryStatus
  /\ nodes' = SyncNodes(<<>>, flowNodes, expandedNodes, loadingNodes)
  /\ last' = Did("select", NULL)
  /\ UNCHANGED <<serverVars, storeVars, inFlight>>
  /\ UNCHANGED uploadVars

\* handleShowList: the canvas unmounts and the store is reset; requests already
\* issued stay outstanding.
HandleShowList ==
  /\ view = "mindmap"
  /\ view' = "list"
  /\ nodesData' = <<>>
  /\ expandedNodes' = EmptyRec
  /\ loadingNodes' = EmptyRec
  /\ flowNodes' = <<>>
  /\ flowEdges' = <<>>
  /\ nodes' = <<>>
  /\ last' = Did("reset", NULL)
  /\ UNCHANGED <<serverVars, queryStatus, inFlight>>
  /\ document' = NoDocument
  /\ UNCHANGED hookVars

\* handleSelectDocument from the header of the mind-map view: another document
\* is selected, the store is kept, the canvas is mounted anew and the query of
\* the new document starts. Taken when no expandNode call is outstanding.
HandleSwitchDocument ==
  /\ view = "mindmap"
  /\ queryStatus \in {"success", "error"}
  /\ "e" \notin DOMAIN serverTree
  /\ inFlight = [id \in Ids |-> 0]
  /\ serverTree' = TreeB
  /\ queryStatus' = "fetching"
  /\ nodes' = SyncNodes(<<>>, flowNodes, expandedNodes, loadingNodes)
  /\ last' = Did("select", NULL)
  /\ UNCHANGED <<serverVersion, view, storeVars, inFlight>>
  /\ UNCHANGED uploadVars

\* The query cache drops an unobserved, settled query after gcTime.
QueryGarbageCollected ==
  /\ view = "list"
  /\ queryStatus \in {"success", "error"}
  /\ queryStatus' = "idle"
  /\ UNCHANGED <<serverVars, view, storeVars, inFlight, nodes, last>>
  /\ UNCHANGED uploadVars

(* ------------------------------------------------------------------ *)
(* useMindMap: the initial query                                       *)
(* ------------------------------------------------------------------ *)

\* queryFn after getMindMap resolved.
InitialLoadSuccess(levels) ==
  /\ queryStatus = "fetching"
  /\ LET response == MindMapResponse(levels)
         rootNodes == Roots(response.nodes)
         initialExpandedIds == IF rootNodes = <<>> THEN <<>> ELSE <<Head(rootNodes).id>>
         initialExpanded == SetExpandedNodes(initialExpandedIds)
         nodesRecord == AddNodesData(<<>>, response.nodes)
         flow == BuildFlowElements(nodesRecord, initialExpanded)
     IN  /\ nodesData' = AddNodesData(nodesData, response.nodes)
         /\ expandedNodes' = SetExpandedNodes(initialExpandedIds)
         /\ flowNodes' = flow.flowNodes
         /\ flowEdges' = flow.flowEdges
  /\ queryStatus' = "success"
  /\ nodes' = IF Mounted THEN SyncNodes(nodes, flowNodes', expandedNodes', loadingNodes)
              ELSE nodes
  /\ last' = Did("load", NULL)
  /\ UNCHANGED <<serverVars, view, loadingNodes, inFlight>>
  /\ UNCHANGED uploadVars

\* getMindMap rejected: the query ends in error and the store is not touched.
InitialLoadFailure ==
  /\ queryStatus = "fetching"
  /\ queryStatus' = "error"
  /\ last' = Did("loadError", NULL)
  /\ UNCHANGED <<serverVars, view, storeVars, inFlight, nodes>>
  /\ UNCHANGED uploadVars

(* ------------------------------------------------------------------ *)
(* useMindMap: handleNodeExpand and the expand mutation                *)
(* ------------------------------------------------------------------ *)

\* A test that takes the children for loaded whatever the store holds.
ChildrenLoaded_Always(nd, node) == TRUE

\* A test that also asks for at least one child id.
ChildrenLoaded_NeedsChildren(nd, node) ==
  /\ Len(node.children_ids) > 0
  /\ \A i \in 1..Len(node.children_ids) : HasKey(nd, node.children_ids[i])

ChildrenLoaded(nd, node) ==
  \A i \in 1..Len(node.children_ids) : HasKey(nd, node.children_ids[i])

\* The number of outstanding expandNode calls for the ids in S.
RECURSIVE Outstanding(_, _)
Outstanding(pending, S) ==
  IF S = {} THEN 0
  ELSE LET id == CHOOSE x \in S : TRUE
       IN  pending[id] + Outstanding(pending, S \ {id})

\* toggleNodeExpanded, buildFlowElements, setFlowNodes, setFlowEdges.
ToggleAndRebuild(nodeId) ==
  /\ expandedNodes' = ToggleNodeExpanded(expandedNodes, nodeId)
  /\ LET flow == BuildFlowElements(nodesData, expandedNodes')
     IN  /\ flowNodes' = flow.flowNodes
         /\ flowEdges' = flow.flowEdges
  /\ nodes' = SyncNodes(nodes, flowNodes', expandedNodes', loadingNodes)
  /\ UNCHANGED <<nodesData, loadingNodes, inFlight>>

\* expandMutation.mutate(nodeId): mutationFn marks the node loading and calls
\* expandNode.
Mutate(nodeId) ==
  /\ Outstanding(inFlight, Ids) < MaxInFlight
  /\ loadingNodes' = SetNodeLoading(loadingNodes, nodeId, TRUE)
  /\ inFlight' = [inFlight EXCEPT ![nodeId] = @ + 1]
  /\ UNCHANGED <<nodesData, expandedNodes, flowNodes, flowEdges, nodes>>

\* A guard that only rejects ids unknown to the store.
IgnoresClick_UnknownOnly(nd, nodeId) == ~HasKey(nd, nodeId)

\* A guard that also rejects every click while some node is loading.
IgnoresClick_WhileLoading(nd, nodeId) ==
  \/ ~HasKey(nd, nodeId)
  \/ ~Get(nd, nodeId).has_children
  \/ \E k \in DOMAIN loadingNodes : loadingNodes[k]

\* if (!node || !node.has_children) return;
IgnoresClick(nd, nodeId) ==
  ~HasKey(nd, nodeId) \/ ~Get(nd, nodeId).has_children

\* handleNodeExpand(nodeId)
HandleNodeExpandCall(nodeId) ==
  /\ IF IgnoresClick(nodesData, nodeId)
       THEN /\ last' = Did("ignored", nodeId)
            /\ UNCHANGED <<storeVars, inFlight, nodes>>
       ELSE IF Truthy(expandedNodes, nodeId)
         THEN /\ ToggleAndRebuild(nodeId)
              /\ last' = Did("collapse", nodeId)
         ELSE IF ChildrenLoaded(nodesData, Get(nodesData, nodeId))
           THEN /\ ToggleAndRebuild(nodeId)
                /\ last' = Did("expand", nodeId)
           ELSE /\ Mutate(nodeId)
                /\ last' = Did("fetch", nodeId)
  /\ UNCHANGED <<serverVars, view, queryStatus>>
  /\ UNCHANGED uploadVars

\* A click on the expand button of a node on screen.
HandleNodeExpand(nodeId) ==
  /\ ExpandButtonEnabled(nodeId)
  /\ HandleNodeExpandCall(nodeId)

\* handleNodeExpand called for an id that has no expand button: a leaf, or an
\* id the store does not hold.
HandleNodeExpandNoButton(nodeId) ==
  /\ Mounted
  /\ \A i \in 1..Len(nodesData) :
       nodesData[i].id = nodeId => ~nodesData[i].has_children
  /\ HandleNodeExpandCall(nodeId)

\* The store after expandMutation.onSuccess ran on the store st with the
\* response of expandNode(nodeId).
OnSuccess(st, nodeId, response) ==
  LET nd == AddNodesData(st.nodesData, <<response.node>> \o response.children)
      ex == ToggleNodeExpanded(st.expandedNodes, nodeId)
      flow == BuildFlowElements(nd, ex)
  IN  [nodesData |-> nd,
       expandedNodes |-> ex,
       loadingNodes |-> SetNodeLoading(st.loadingNodes, nodeId, FALSE),
       flowNodes |-> flow.flowNodes,
       flowEdges |-> flow.flowEdges]

\* The store as a record of its fields.
Store ==
  [nodesData |-> nodesData, expandedNodes |-> expandedNodes,
   loadingNodes |-> loadingNodes, flowNodes |-> flowNodes, flowEdges |-> flowEdges]

\* expandMutation.onSuccess
ExpandSuccess(nodeId, response) ==
  /\ inFlight[nodeId] > 0
  /\ inFlight' = [inFlight EXCEPT ![nodeId] = @ - 1]
  /\ LET after == OnSuccess(Store, nodeId, response)
     IN  /\ nodesData' = after.nodesData
         /\ expandedNodes' = after.expandedNodes
         /\ loadingNodes' = after.loadingNodes
         /\ flowNodes' = after.flowNodes
         /\ flowEdges' = after.flowEdges
  /\ nodes' = IF Mounted THEN SyncNodes(nodes, flowNodes', expandedNodes', loadingNodes')
              ELSE nodes
  /\ last' = Did("expandSuccess", nodeId)
  /\ UNCHANGED <<serverVars, view, queryStatus>>
  /\ UNCHANGED uploadVars

\* An onError that settles the node like onSuccess does, without new data.
ExpandFailure_ToggleOnError(nodeId) ==
  /\ inFlight[nodeId] > 0
  /\ inFlight' = [inFlight EXCEPT ![nodeId] = @ - 1]
  /\ expandedNodes' = ToggleNodeExpanded(expandedNodes, nodeId)
  /\ LET flow == BuildFlowElements(nodesData, expandedNodes')
     IN  /\ flowNodes' = flow.flowNodes
         /\ flowEdges' = flow.flowEdges
  /\ loadingNodes' = SetNodeLoading(loadingNodes, nodeId, FALSE)
  /\ nodes' = IF Mounted THEN SyncNodes(nodes, flowNodes', expandedNodes', loadingNodes')
              ELSE nodes
  /\ last' = Did("expandError", nodeId)
  /\ UNCHANGED <<serverVars, view, queryStatus, nodesData>>
  /\ UNCHANGED uploadVars

\* An onError that leaves the loading entry as it is.
ExpandFailure_KeepLoading(nodeId) ==
  /\ inFlight[nodeId] > 0
  /\ inFlight' = [inFlight EXCEPT ![nodeId] = @ - 1]
  /\ last' = Did("expandError", nodeId)
  /\ UNCHANGED <<serverVars, view, queryStatus, storeVars, nodes>>
  /\ UNCHANGED uploadVars

\* expandMutation.onError
ExpandFailure(nodeId) ==
  /\ inFlight[nodeId] > 0
  /\ inFlight' = [inFlight EXCEPT ![nodeId] = @ - 1]
  /\ loadingNodes' = SetNodeLoading(loadingNodes, nodeId, FALSE)
  /\ last' = Did("expandError", nodeId)
  /\ UNCHANGED <<serverVars, view, queryStatus, nodesData, expandedNodes,
                 flowNodes, flowEdges, nodes>>
  /\ UNCHANGED uploadVars

\* handleResetLayout: the nodes are rebuilt from the flow nodes last synced.
HandleResetLayout ==
  /\ Mounted
  /\ queryStatus = "success"
  /\ nodes' = SyncNodes(<<>>, flowNodes, expandedNodes, loadingNodes)
  /\ nodes' # nodes
  /\ UNCHANGED <<serverVars, view, queryStatus, storeVars, inFlight, last>>
  /\ UNCHANGED uploadVars

\* The document's content is edited on the backend.
ServerEdit ==
  /\ serverVersion < MaxVersion
  /\ serverVersion' = serverVersion + 1
  /\ UNCHANGED <<serverTree, view, queryStatus, storeVars, inFlight, nodes, last>>
  /\ UNCHANGED uploadVars

\* seq without the element x.
Without(seq, x) == SelectSeq(seq, LAMBDA y : y # x)

\* The document is restructured on the backend: a leaf is removed, and its
\* parent is served from then on without it.
ServerPrune(leaf) ==
  /\ leaf \in DOMAIN serverTree
  /\ serverTree[leaf].children_ids = <<>>
  /\ serverTree[leaf].parent_id # NULL
  /\ \E t \in ServerTrees :
       Cardinality(DOMAIN t) - Cardinality(DOMAIN serverTree) < MaxPruned
  /\ serverTree' =
       [id \in (DOMAIN serverTree) \ {leaf} |->
          IF id = serverTree[leaf].parent_id
            THEN LET kept == Without(serverTree[id].children_ids, leaf)
                 IN  [serverTree[id] EXCEPT !.children_ids = kept,
                                            !.has_children = (kept # <<>>)]
            ELSE serverTree[id]]
  /\ UNCHANGED <<serverVersion, view, queryStatus, storeVars, inFlight, nodes, last>>
  /\ UNCHANGED uploadVars

(* ------------------------------------------------------------------ *)
(* Specifications                                                      *)
(* ------------------------------------------------------------------ *)

(* ------------------------------------------------------------------ *)
(* useDocumentUpload and DocumentUpload                                *)
(* ------------------------------------------------------------------ *)

UploadMounted == view = "upload"

\* The data of the query ['documentStatus', uploadedDocument?.id]: none while
\* no document is uploaded or the status was never fetched.
QueryData(ud, data) == IF ud = NoDocument THEN "none" ELSE data[ud.id]

\* The status the hook returns, `status || uploadedDocument`, read as
\* status?.status.
ReturnedStatus(ud, data) ==
  IF QueryData(ud, data) # "none" THEN QueryData(ud, data) ELSE ud.status

\* The query is enabled for an uploaded document that was pending or
\* processing when uploaded, and polls until it has seen completed or failed.
Polling(ud, data) ==
  /\ ud # NoDocument
  /\ ud.status \in {"pending", "processing"}
  /\ QueryData(ud, data) \notin {"completed", "failed"}

\* The condition of the hook's effect.
ShouldSetDocument(status, ud, flag) ==
  status = "completed" /\ ud # NoDocument /\ ~flag

\* A condition of the component's effect that does not read the ref.
ShouldCallOnReady_EveryRender(status, ud, called) ==
  status = "completed" /\ ud # NoDocument

\* The condition of the component's effect.
ShouldCallOnReady(status, ud, called) ==
  status = "completed" /\ ud # NoDocument /\ ~called

\* A render of the mounted upload view with hook state ud, query data `data`
\* and the hook's flag at `flag`, followed by the two effects: the hook's
\* (setDocument) and the component's (onDocumentReady, which starts
\* handleDocumentReady).
RenderAndRunEffects(ud, data, flag, sets) ==
  LET setNow == ShouldSetDocument(QueryData(ud, data), ud, flag)
      callNow == ShouldCallOnReady(ReturnedStatus(ud, data), ud, hasCalledOnReady)
  IN  /\ hasSetDocument' = (flag \/ setNow)
      /\ document' = IF setNow THEN [id |-> ud.id, status |-> "completed"] ELSE document
      /\ setCalls' = IF setNow /\ sets < MaxCalls THEN sets + 1 ELSE sets
      /\ hasCalledOnReady' = (hasCalledOnReady \/ callNow)
      /\ readyCalls' = IF callNow /\ readyCalls < MaxCalls THEN readyCalls + 1 ELSE readyCalls
      /\ refreshing' = IF callNow /\ refreshing < MaxCalls THEN refreshing + 1 ELSE refreshing

mindMapVars == <<serverVars, queryStatus, storeVars, inFlight, last>>

\* handleShowUpload: the upload view mounts with a fresh hook and fresh refs;
\* the store is left as it is.
HandleShowUpload ==
  /\ view \in {"list", "mindmap"}
  /\ view' = "upload"
  /\ nodes' = <<>>
  /\ uploading' = FALSE
  /\ uploadedDocument' = NoDocument
  /\ hasSetDocument' = FALSE
  /\ hasCalledOnReady' = FALSE
  /\ renders' = 0
  /\ readyCalls' = 0
  /\ setCalls' = 0
  /\ UNCHANGED <<mindMapVars, document, backendStatus, statusData, refreshing>>

\* handleBackFromUpload: back to the list, the upload view unmounts.
HandleBackFromUpload ==
  /\ UploadMounted
  /\ view' = "list"
  /\ UNCHANGED <<mindMapVars, nodes, uploadVars>>

\* handleDrop / handleFileSelect: handleUpload(file) while no upload is pending.
HandleUpload ==
  /\ UploadMounted
  /\ ~uploading
  /\ \E id \in UploadIds : backendStatus[id] = "absent"
  /\ uploading' = TRUE
  /\ UNCHANGED <<mindMapVars, view, nodes, document, backendStatus, uploadedDocument,
                 statusData, hasSetDocument, hasCalledOnReady, refreshing, renders,
                 readyCalls, setCalls>>

\* uploadMutation.onSuccess that leaves the flag as it is.
UploadOnSuccess_KeepFlag(uploaded) ==
  [uploadedDocument |-> uploaded, hasSetDocument |-> hasSetDocument]

\* uploadMutation.onSuccess: the document is kept and the flag re-armed.
UploadOnSuccess(uploaded) ==
  [uploadedDocument |-> uploaded, hasSetDocument |-> FALSE]

\* uploadDocument resolved: the backend has registered the document under the
\* next id and returns it with its status; onSuccess runs and the view renders.
UploadSuccess(id, status) ==
  /\ UploadMounted
  /\ uploading
  /\ backendStatus[id] = "absent"
  /\ \A other \in UploadIds : other < id => backendStatus[other] # "absent"
  /\ backendStatus' = [backendStatus EXCEPT ![id] = status]
  /\ uploading' = FALSE
  /\ LET after == UploadOnSuccess([id |-> id, status |-> status])
     IN  /\ uploadedDocument' = after.uploadedDocument
         /\ RenderAndRunEffects(after.uploadedDocument, statusData, after.hasSetDocument, 0)
  /\ UNCHANGED <<mindMapVars, view, nodes, statusData, renders>>

\* uploadDocument rejected: only the mutation's error is set.
UploadFailure ==
  /\ UploadMounted
  /\ uploading
  /\ uploading' = FALSE
  /\ UNCHANGED <<mindMapVars, view, nodes, document, backendStatus, uploadedDocument,
                 statusData, hasSetDocument, hasCalledOnReady, refreshing, renders,
                 readyCalls, setCalls>>

\* The backend processes an uploaded document.
BackendProgress(id) ==
  /\ \/ backendStatus[id] = "pending"
        /\ backendStatus' = [backendStatus EXCEPT ![id] = "processing"]
     \/ backendStatus[id] = "processing"
        /\ \E result \in {"completed", "failed"} :
             backendStatus' = [backendStatus EXCEPT ![id] = result]
  /\ UNCHANGED <<mindMapVars, view, nodes, document, uploading, uploadedDocument,
                 statusData, hasSetDocument, hasCalledOnReady, refreshing, renders,
                 readyCalls, setCalls>>

\* getDocumentStatus resolved for the uploaded document: the query's data is
\* replaced and the view renders.
StatusPolled ==
  /\ UploadMounted
  /\ Polling(uploadedDocument, statusData)
  /\ statusData' = [statusData EXCEPT ![uploadedDocument.id] = backendStatus[uploadedDocument.id]]
  /\ RenderAndRunEffects(uploadedDocument, statusData', hasSetDocument, setCalls)
  /\ UNCHANGED <<mindMapVars, view, nodes, backendStatus, uploading, uploadedDocument, renders>>

\* The upload view renders again (its parent rendered, or a drag began) and
\* the effects run as if their dependencies had changed.
Rerender ==
  /\ UploadMounted
  /\ renders < MaxRenders
  /\ renders' = renders + 1
  /\ RenderAndRunEffects(uploadedDocument, statusData, hasSetDocument, setCalls)
  /\ UNCHANGED <<mindMapVars, view, nodes, backendStatus, uploading, uploadedDocument,
                 statusData>>

\* handleDocumentReady after getDocuments settled: setView('mindmap'); the
\* upload view unmounts and the canvas mounts.
DocumentsRefreshed ==
  /\ refreshing > 0
  /\ refreshing' = refreshing - 1
  /\ view' = "mindmap"
  /\ queryStatus' = IF queryStatus \in {"idle", "error"} THEN "fetching" ELSE queryStatus
  /\ nodes' = IF Mounted THEN nodes ELSE SyncNodes(<<>>, flowNodes, expandedNodes, loadingNodes)
  /\ UNCHANGED <<serverVars, storeVars, inFlight, last, document, backendStatus, uploading,
                 uploadedDocument, statusData, hasSetDocument, hasCalledOnReady, renders,
                 readyCalls, setCalls>>

DocIds == DOMAIN serverTree

Environment ==
  \/ HandleSelectDocument
  \/ HandleShowList
  \/ QueryGarbageCollected
  \/ \E levels \in 1..LoadDepth : InitialLoadSuccess(levels)
  \/ InitialLoadFailure
  \/ \E nodeId \in DocIds : HandleNodeExpand(nodeId)
  \/ \E nodeId \in DocIds : ExpandFailure(nodeId)
  \/ HandleResetLayout
  \/ ServerEdit

\* The backend answers expandNode with the node and all of its children.
Next ==
  \/ Environment
  \/ \E nodeId \in DocIds : ExpandSuccess(nodeId, NodeExpandResponse(nodeId))

Spec == Init /\ [][Next]_vars

\* The backend may leave children out of an expandNode response.
NextLossy ==
  \/ Environment
  \/ \E nodeId \in DocIds :
       \E response \in LossyExpandResponses(nodeId) : ExpandSuccess(nodeId, response)

SpecLossy == Init /\ [][NextLossy]_vars

SpecDeep == InitDeep /\ [][Next]_vars

\* An outstanding expandNode call for nodeId settles: it succeeds or it fails.
Settle(nodeId) ==
  \/ ExpandFailure(nodeId)
  \/ nodeId \in DocIds /\ ExpandSuccess(nodeId, NodeExpandResponse(nodeId))

\* Every expandNode call issued is eventually answered or rejected.
SpecLive == Spec /\ \A nodeId \in Ids : WF_vars(Settle(nodeId))

SpecStub == InitStub /\ [][Next]_vars

\* The handler is also called for ids that have no expand button.
NextHandler ==
  \/ Next
  \/ \E nodeId \in Ids : HandleNodeExpandNoButton(nodeId)

SpecHandler == Init /\ [][NextHandler]_vars

\* The user may also switch to the second document from the header.
NextSwitch ==
  \/ Next
  \/ HandleSwitchDocument

SpecSwitch == Init /\ [][NextSwitch]_vars

\* The backend may also remove nodes from the document.
NextRestructure ==
  \/ Next
  \/ \E leaf \in Ids : ServerPrune(leaf)

SpecRestructure == Init /\ [][NextRestructure]_vars

\* The upload view: uploads, the status poll, re-renders and the way out.
NextUpload ==
  \/ HandleShowUpload
  \/ HandleBackFromUpload
  \/ HandleUpload
  \/ \E id \in UploadIds : \E status \in {"pending", "processing"} : UploadSuccess(id, status)
  \/ UploadFailure
  \/ \E id \in UploadIds : BackendProgress(id)
  \/ StatusPolled
  \/ Rerender
  \/ DocumentsRefreshed

SpecUpload == Init /\ [][NextUpload]_vars

(* ------------------------------------------------------------------ *)
(* Derived views used by the properties                                *)
(* ------------------------------------------------------------------ *)

\* The ids getVisibleNodes returns for the store's current contents.
VisibleIds == Keys(GetVisibleNodes(nodesData, expandedNodes))

\* The ids of the flow nodes handed to the canvas.
FlowIds == Keys(flowNodes)

\* Whether following parent_id links in the store from id leads to ancestor.
RECURSIVE IsDescendantIn(_, _, _, _)
IsDescendantIn(nd, id, ancestor, fuel) ==
  /\ fuel > 0
  /\ HasKey(nd, id)
  /\ Get(nd, id).parent_id # NULL
  /\ \/ Get(nd, id).parent_id = ancestor
     \/ IsDescendantIn(nd, Get(nd, id).parent_id, ancestor, fuel - 1)

IsDescendant(id, ancestor) == IsDescendantIn(nodesData, id, ancestor, Cardinality(Ids))

(* ------------------------------------------------------------------ *)
(* C1  Visibility soundness                                            *)
(* ------------------------------------------------------------------ *)

\* C1: a node of the store is in the visible set returned by getVisibleNodes
\* if and only if it is the root, or its parent is in the visible set and
\* expandedNodes[parent] is true.
C1_VisibilitySoundness ==
  \A i \in 1..Len(nodesData) :
    LET node == nodesData[i]
    IN  (node.id \in VisibleIds) <=>
          \/ node.node_type = "root"
          \/ (node.parent_id \in VisibleIds /\ Truthy(expandedNodes, node.parent_id))

(* ------------------------------------------------------------------ *)
(* C2  No duplicate fetch                                              *)
(* ------------------------------------------------------------------ *)

\* C2: a second click on a node whose fetch has not resolved issues no second
\* expandNode call: at most one call is outstanding for a node at any time.
C2_NoDuplicateFetch ==
  \A id \in Ids : inFlight[id] <= 1

(* ------------------------------------------------------------------ *)
(* C3  Merge safety                                                    *)
(* ------------------------------------------------------------------ *)

\* C3: when an expandNode response is merged into nodesData, every id that
\* was already present keeps exactly the entry it had before the merge.
C3_MergeSafety ==
  [][last'.op = "expandSuccess" =>
       \A id \in Keys(nodesData) :
         HasKey(nodesData', id) /\ Get(nodesData', id) = Get(nodesData, id)]_vars

(* ------------------------------------------------------------------ *)
(* C4  Fetch before expand                                             *)
(* ------------------------------------------------------------------ *)

\* C4: if expandedNodes[n] is true then every id in n's children_ids, as
\* stored in nodesData, is a key of nodesData, whatever the backend returned.
C4_FetchBeforeExpand ==
  \A i \in 1..Len(nodesData) :
    Truthy(expandedNodes, nodesData[i].id) => ChildrenLoaded(nodesData, nodesData[i])

(* ------------------------------------------------------------------ *)
(* C5  Collapse hides the descendants                                  *)
(* ------------------------------------------------------------------ *)

\* C5: right after a click collapsed node n, no descendant of n is among the
\* rendered flow nodes.
C5_CollapseHidesDescendants ==
  last.op = "collapse" =>
    \A id \in FlowIds : ~IsDescendant(id, last.node)

(* ------------------------------------------------------------------ *)
(* C6  Collapse touches one entry; re-expanding needs no fetch         *)
(* ------------------------------------------------------------------ *)

\* The step is a click that collapses node n.
CollapseStep(n) ==
  /\ last'.op = "collapse"
  /\ last'.node = n
  /\ Truthy(expandedNodes, n)
  /\ ~Truthy(expandedNodes', n)

\* The step is the click on n that directly follows the click that collapsed n.
ReExpandStep(n) ==
  /\ last.op = "collapse"
  /\ last.node = n
  /\ last'.node = n
  /\ last'.op \in {"ignored", "expand", "fetch"}

SameEntry(rec1, rec2, id) ==
  /\ (id \in DOMAIN rec1) <=> (id \in DOMAIN rec2)
  /\ id \in DOMAIN rec1 => rec1[id] = rec2[id]

\* C6: collapsing n changes only n's own expandedNodes entry and leaves
\* nodesData alone; the click that then re-expands n issues no fetch and
\* renders what was rendered before the collapse.
C6_CollapseFrameAndReExpand ==
  [][\A n \in Ids :
       /\ CollapseStep(n) =>
            /\ nodesData' = nodesData
            /\ \A m \in Ids \ {n} : SameEntry(expandedNodes', expandedNodes, m)
       /\ ReExpandStep(n) =>
            /\ last'.op = "expand"
            /\ inFlight' = inFlight
            /\ Truthy(expandedNodes', n)
            /\ Rendering(flowNodes') = last.before]_vars

\* A node was collapsed and re-expanded by two clicks in a row, and a
\* grandchild of it, whose own parent had stayed expanded, is rendered again.
C6_Witness ==
  /\ last.op = "expand"
  /\ last.after = "collapse"
  /\ inFlight = [id \in Ids |-> 0]
  /\ \E id \in FlowIds :
        /\ IsDescendant(id, last.node)
        /\ Get(nodesData, id).parent_id # last.node
        /\ id \in DOMAIN last.before

(* ------------------------------------------------------------------ *)
(* C7  Expand then collapse                                            *)
(* ------------------------------------------------------------------ *)

\* Node n has just become expanded, by a click or by its fetch completing.
JustExpanded(n) ==
  /\ last.op \in {"expand", "expandSuccess"}
  /\ last.node = n
  /\ Truthy(expandedNodes, n)

\* C7: expanding a collapsed node and collapsing it in the next step renders
\* the same nodes at the same positions as before the expansion.
C7_ExpandCollapseRestores ==
  [][\A n \in Ids :
       (JustExpanded(n) /\ CollapseStep(n)) => Rendering(flowNodes') = last.before]_vars

\* A node was expanded by its fetch completing, which added its children to
\* the store, and was collapsed by the next click.
C7_Witness ==
  /\ last.op = "collapse"
  /\ last.after = "expandSuccess"
  /\ \E i \in 1..Len(nodesData) : nodesData[i].parent_id = last.node

(* ------------------------------------------------------------------ *)
(* Layout as rendered                                                  *)
(* ------------------------------------------------------------------ *)

\* Position of each rendered node, by id.
Pos == Rendering(flowNodes)

VisibleNow == GetVisibleNodes(nodesData, expandedNodes)

\* Subtree width of a node as the layout computes it.
WidthOf(id) == GetSubtreeWidth(VisibleNow, expandedNodes, id)

\* The visible children of a node, in children_ids order.
VisibleChildrenOf(id) == GetVisibleChildren(VisibleNow, expandedNodes, id)

LeftEdge(id) == Pos[id].x - WidthOf(id) \div 2
RightEdge(id) == Pos[id].x + WidthOf(id) \div 2

\* Number of parent links from a node to the root, -1 when the chain of
\* parents in the store does not reach the root.
RECURSIVE DepthIn(_, _, _)
DepthIn(nd, id, fuel) ==
  IF fuel = 0 \/ ~HasKey(nd, id) THEN -1
  ELSE IF Get(nd, id).node_type = "root" THEN 0
  ELSE LET up == DepthIn(nd, Get(nd, id).parent_id, fuel - 1)
       IN  IF up < 0 THEN -1 ELSE up + 1

DepthOf(id) == DepthIn(nodesData, id, Cardinality(Ids) + 1)

\* Rendered nodes with the same parent.
Siblings(a, b) ==
  /\ a # b
  /\ HasKey(nodesData, a) /\ HasKey(nodesData, b)
  /\ Get(nodesData, a).parent_id = Get(nodesData, b).parent_id

Disjoint(a, b) == RightEdge(a) < LeftEdge(b) \/ RightEdge(b) < LeftEdge(a)

(* ------------------------------------------------------------------ *)
(* C8  Layout no-overlap                                               *)
(* ------------------------------------------------------------------ *)

\* C8: for every pair of distinct visible siblings a and b the extents
\* [x_a - w_a/2, x_a + w_a/2] and [x_b - w_b/2, x_b + w_b/2], with w the
\* subtree width, do not intersect.
C8_SiblingsDoNotOverlap ==
  \A a \in FlowIds : \A b \in FlowIds : Siblings(a, b) => Disjoint(a, b)

(* ------------------------------------------------------------------ *)
(* C9  Centering                                                       *)
(* ------------------------------------------------------------------ *)

\* C9: every visible node with at least one visible child has its x at the
\* midpoint between the left edge of its first visible child and the right
\* edge of its last visible child.
C9_ParentCentered ==
  \A id \in FlowIds :
    LET children == VisibleChildrenOf(id)
    IN  Len(children) > 0 =>
          2 * Pos[id].x = LeftEdge(children[1].id) + RightEdge(children[Len(children)].id)

(* ------------------------------------------------------------------ *)
(* C10  Depth bands                                                    *)
(* ------------------------------------------------------------------ *)

\* C10: the root is rendered at (0, 0) and every visible node at depth d,
\* counted in parent links to the root, has y = d * (nodeHeight + verticalSpacing).
C10_DepthBands ==
  \A id \in FlowIds :
    /\ Get(nodesData, id).node_type = "root" => Pos[id] = [x |-> 0, y |-> 0]
    /\ DepthOf(id) >= 0 => Pos[id].y = DepthOf(id) * (nodeHeight + verticalSpacing)

(* ------------------------------------------------------------------ *)
(* C11  Every rendered node is placed by the layout                    *)
(* ------------------------------------------------------------------ *)

\* The position map calculateTreeLayout computes for the store's contents.
PositionsNow == CalculateTreeLayout(VisibleNow, expandedNodes)

\* C11: every rendered flow node has an entry in calculateTreeLayout's
\* position map; none relies on the {x: 0, y: 0} fallback.
C11_EveryVisibleNodePlaced ==
  \A id \in FlowIds : id \in DOMAIN PositionsNow

(* ------------------------------------------------------------------ *)
(* C12  State right after a successful expandNode response             *)
(* ------------------------------------------------------------------ *)

\* C12: right after the response of expandNode(n) has been processed,
\* expandedNodes[n] is true, loadingNodes[n] is false and the children the
\* backend returned are keys of nodesData.
C12_AfterSuccessExpanded ==
  last.op = "expandSuccess" =>
    /\ Truthy(expandedNodes, last.node)
    /\ ~Truthy(loadingNodes, last.node)
    /\ ChildrenLoaded(nodesData, NodeExpandResponse(last.node).node)

(* ------------------------------------------------------------------ *)
(* C13  A failed expandNode call                                       *)
(* ------------------------------------------------------------------ *)

\* The step is the onError callback of a call for node n.
FailureStep(n) ==
  /\ last'.op = "expandError"
  /\ last'.node = n
  /\ inFlight'[n] = inFlight[n] - 1

\* C13: when a call for n fails, loadingNodes[n] becomes false, a collapsed n
\* stays collapsed, expandedNodes, nodesData, flowNodes and flowEdges are
\* unchanged, and a call for n is issued only by a click on n.
C13_FailureLeavesNodeCollapsed ==
  [][\A n \in Ids :
       /\ FailureStep(n) =>
            /\ ~Truthy(loadingNodes', n)
            /\ ~Truthy(expandedNodes, n) => ~Truthy(expandedNodes', n)
            /\ expandedNodes' = expandedNodes
            /\ nodesData' = nodesData
            /\ flowNodes' = flowNodes
            /\ flowEdges' = flowEdges
       /\ inFlight'[n] > inFlight[n] =>
            /\ last'.op = "fetch"
            /\ last'.node = n]_vars

\* The call for a collapsed node on screen has just failed: the node is not
\* loading, still collapsed, and no call for it is outstanding.
C13_Witness ==
  /\ last.op = "expandError"
  /\ last.node \in FlowIds
  /\ last.node \in DOMAIN loadingNodes
  /\ ~loadingNodes[last.node]
  /\ ~Truthy(expandedNodes, last.node)
  /\ inFlight[last.node] = 0

(* ------------------------------------------------------------------ *)
(* C14  Clicks on leaves and unknown ids                               *)
(* ------------------------------------------------------------------ *)

ClickOps == {"ignored", "collapse", "expand", "fetch"}

\* The step is a call handleNodeExpand(n): it records itself in `last`, or, when
\* it repeats the record of the call before it, issues a call to the backend.
ClickStep(n) ==
  /\ last'.op \in ClickOps
  /\ last'.node = n
  /\ (last' # last \/ inFlight' # inFlight)

\* C14: handleNodeExpand on a node with has_children = false, or on an id
\* that is not in nodesData, changes none of nodesData, expandedNodes,
\* loadingNodes, flowNodes, flowEdges and issues no fetch.
C14_LeafClickIsNoOp ==
  [][\A n \in Ids :
       (/\ ClickStep(n)
        /\ (~HasKey(nodesData, n) \/ ~Get(nodesData, n).has_children)) =>
          /\ nodesData' = nodesData
          /\ expandedNodes' = expandedNodes
          /\ loadingNodes' = loadingNodes
          /\ flowNodes' = flowNodes
          /\ flowEdges' = flowEdges
          /\ inFlight' = inFlight]_vars

\* handleNodeExpand has just been called for a rendered leaf.
C14_Witness ==
  /\ last.op = "ignored"
  /\ last.node \in FlowIds
  /\ ~Get(nodesData, last.node).has_children

(* ------------------------------------------------------------------ *)
(* C15  A click on a collapsed node fetches iff a child is missing     *)
(* ------------------------------------------------------------------ *)

\* Some id of n's children_ids is not a key of nodesData.
SomeChildMissing(n) ==
  \E i \in 1..Len(Get(nodesData, n).children_ids) :
    ~HasKey(nodesData, Get(nodesData, n).children_ids[i])

\* C15: a click on a collapsed node with has_children issues an expandNode
\* call if and only if one of its children_ids is absent from nodesData; when
\* all are present the node is expanded by that click without a call.
C15_FetchIffChildMissing ==
  [][\A n \in Ids :
       (/\ ClickStep(n)
        /\ HasKey(nodesData, n)
        /\ Get(nodesData, n).has_children
        /\ ~Truthy(expandedNodes, n)) =>
          /\ (inFlight' # inFlight) <=> SomeChildMissing(n)
          /\ SomeChildMissing(n) =>
               /\ inFlight' = [inFlight EXCEPT ![n] = @ + 1]
               /\ ~Truthy(expandedNodes', n)
          /\ ~SomeChildMissing(n) =>
               /\ Truthy(expandedNodes', n)
               /\ nodesData' = nodesData]_vars

\* A click on a collapsed node whose children the store does not hold has
\* just issued the call for it.
C15_Witness ==
  /\ last.op = "fetch"
  /\ inFlight[last.node] = 1
  /\ ~Truthy(expandedNodes, last.node)
  /\ SomeChildMissing(last.node)

(* ------------------------------------------------------------------ *)
(* C16  loadingNodes and outstanding calls                             *)
(* ------------------------------------------------------------------ *)

\* C16: loadingNodes[n] is true exactly while an expandNode(n) call has been
\* issued and has not resolved.
C16_LoadingIffOutstanding ==
  \A n \in Ids : Truthy(loadingNodes, n) <=> inFlight[n] > 0

(* ------------------------------------------------------------------ *)
(* C17  A loading node is rendered as loading                          *)
(* ------------------------------------------------------------------ *)

\* C17: whenever loadingNodes[n] is true for a node n on the canvas, the
\* record rendered for n has isLoading = true, which disables its button.
C17_LoadingNodeRenderedLoading ==
  \A i \in 1..Len(nodes) :
    Truthy(loadingNodes, nodes[i].id) =>
      /\ nodes[i].isLoading
      /\ ~ExpandButtonEnabled(nodes[i].id)

(* ------------------------------------------------------------------ *)
(* C18  nodesData is append-only                                       *)
(* ------------------------------------------------------------------ *)

\* Every element of seq1 is an element of seq2.
AllIn(seq1, seq2) ==
  \A i \in 1..Len(seq1) : \E j \in 1..Len(seq2) : seq2[j] = seq1[i]

\* C18: in every step other than a reset, a node id that is in nodesData stays
\* in it, keeps its parent_id, and keeps every id of its children_ids.
C18_StoreAppendOnly ==
  [][last'.op # "reset" =>
       \A id \in Keys(nodesData) :
         /\ HasKey(nodesData', id)
         /\ Get(nodesData', id).parent_id = Get(nodesData, id).parent_id
         /\ AllIn(Get(nodesData, id).children_ids, Get(nodesData', id).children_ids)]_vars

(* ------------------------------------------------------------------ *)
(* C19  One root, of the document shown                                *)
(* ------------------------------------------------------------------ *)

\* The ids of the stored nodes that have no parent.
StoredRoots == {nodesData[i].id : i \in {j \in 1..Len(nodesData) : nodesData[j].parent_id = NULL}}

\* C19: nodesData holds at most one node without a parent, and that node is
\* the root of the document currently shown.
C19_SingleRootOfShownDocument ==
  /\ Cardinality(StoredRoots) <= 1
  /\ \A id \in StoredRoots : id \in DOMAIN serverTree

(* ------------------------------------------------------------------ *)
(* C20  flowNodes and flowEdges are the projection of the store        *)
(* ------------------------------------------------------------------ *)

\* The elements of an array, order set aside.
Elements(seq) == {seq[i] : i \in 1..Len(seq)}

\* C20: between handlers, flowNodes and flowEdges hold the flow nodes and
\* edges of buildFlowElements(nodesData, expandedNodes) for the store's
\* contents (the same elements; the order of the arrays is set aside).
C20_FlowIsProjectionOfStore ==
  LET flow == BuildFlowElements(nodesData, expandedNodes)
  IN  /\ Elements(flowNodes) = Elements(flow.flowNodes)
      /\ Elements(flowEdges) = Elements(flow.flowEdges)

(* ------------------------------------------------------------------ *)
(* C21  Responses for two nodes arrive in either order                 *)
(* ------------------------------------------------------------------ *)

\* What C21 compares: the entries of nodesData, expandedNodes, loadingNodes,
\* and the rendered nodes with their positions.
Outcome(st) ==
  [entries |-> Elements(st.nodesData),
   expandedNodes |-> st.expandedNodes,
   loadingNodes |-> st.loadingNodes,
   rendering |-> Rendering(st.flowNodes)]

\* C21: when calls for two distinct nodes are outstanding, processing their
\* two responses in either order ends with the same nodesData entries,
\* expandedNodes, loadingNodes, visible nodes and positions.
C21_ResponseOrderIndependent ==
  \A n \in DocIds : \A m \in DocIds \ {n} :
    (inFlight[n] > 0 /\ inFlight[m] > 0) =>
      \A vn \in 0..serverVersion : \A vm \in 0..serverVersion :
        LET rn == NodeExpandResponseAt(n, vn)
            rm == NodeExpandResponseAt(m, vm)
        IN  Outcome(OnSuccess(OnSuccess(Store, n, rn), m, rm))
              = Outcome(OnSuccess(OnSuccess(Store, m, rm), n, rn))

(* ------------------------------------------------------------------ *)
(* C22  Other nodes stay interactive while a fetch is outstanding      *)
(* ------------------------------------------------------------------ *)

\* C22: while a call for n is outstanding, a click on another rendered node m
\* that has children acts in that step: a collapse or a cached expand flips
\* expandedNodes[m] and changes flowNodes, an expand that needs data issues
\* the call for m; n's call stays outstanding, n stays loading, and the
\* response of n leaves n's entry, n's expansion and nodesData as it would
\* have without the click.
C22_OtherNodesInteractive ==
  [][\A n \in DocIds : \A m \in DocIds \ {n} :
       (/\ inFlight[n] > 0
        /\ ClickStep(m)
        /\ m \in FlowIds
        /\ HasKey(nodesData, m)
        /\ Get(nodesData, m).has_children) =>
          /\ last'.op \in {"collapse", "expand", "fetch"}
          /\ last'.op \in {"collapse", "expand"} =>
               /\ Truthy(expandedNodes', m) # Truthy(expandedNodes, m)
               /\ flowNodes' # flowNodes
          /\ last'.op = "fetch" => inFlight'[m] = inFlight[m] + 1
          /\ inFlight'[n] = inFlight[n]
          /\ Truthy(loadingNodes', n) = Truthy(loadingNodes, n)
          /\ LET response == NodeExpandResponse(n)
                 with == OnSuccess(Store', n, response)
                 without == OnSuccess(Store, n, response)
             IN  /\ with.nodesData = without.nodesData
                 /\ Truthy(with.expandedNodes, n) = Truthy(without.expandedNodes, n)
                 /\ Truthy(with.loadingNodes, n) = Truthy(without.loadingNodes, n)]_vars

\* A click has just collapsed or expanded a node while the call for another
\* node is outstanding and that node is loading.
C22_Witness ==
  /\ last.op \in {"collapse", "expand"}
  /\ \E n \in DocIds \ {last.node} : inFlight[n] > 0 /\ Truthy(loadingNodes, n)

(* ------------------------------------------------------------------ *)
(* C23  A response that omits a declared child                         *)
(* ------------------------------------------------------------------ *)

\* C23: when the response of expandNode(n) has just been processed and a child
\* listed in n's children_ids is still not in nodesData (the response omitted
\* it), n is left collapsed and the omitted child is not rendered.
C23_InconsistentLeavesCollapsed ==
  (/\ last.op = "expandSuccess"
   /\ HasKey(nodesData, last.node)
   /\ SomeChildMissing(last.node)) =>
     /\ ~Truthy(expandedNodes, last.node)
     /\ \A i \in 1..Len(Get(nodesData, last.node).children_ids) :
          LET child == Get(nodesData, last.node).children_ids[i]
          IN  ~HasKey(nodesData, child) => child \notin FlowIds

(* ------------------------------------------------------------------ *)
(* C24  Edges join rendered parent and child                           *)
(* ------------------------------------------------------------------ *)

\* C24: every edge in flowEdges has a source and a target that are both
\* visible nodes of the store, both flow nodes and both entries of nodesData,
\* and its source is the parent_id of its target.
C24_EdgesJoinVisibleParentAndChild ==
  \A i \in 1..Len(flowEdges) :
    LET edge == flowEdges[i]
    IN  /\ edge.source \in VisibleIds /\ edge.target \in VisibleIds
        /\ edge.source \in FlowIds /\ edge.target \in FlowIds
        /\ HasKey(nodesData, edge.source) /\ HasKey(nodesData, edge.target)
        /\ Get(nodesData, edge.target).parent_id = edge.source

\* Edges are drawn while a flow node whose parent is not rendered gets none.
C24_Witness ==
  /\ Len(flowEdges) > 0
  /\ \E i \in 1..Len(flowNodes) :
       /\ flowNodes[i].data.parent_id # NULL
       /\ flowNodes[i].data.parent_id \notin FlowIds

(* ------------------------------------------------------------------ *)
(* C25  Child order and insertion order                                *)
(* ------------------------------------------------------------------ *)

\* The same record with the entries at places i and j inserted in the other
\* order.
Swap(nd, i, j) ==
  [k \in 1..Len(nd) |-> IF k = i THEN nd[j] ELSE IF k = j THEN nd[i] ELSE nd[k]]

\* The positions buildFlowElements gives, by node id.
LayoutOf(nd, ex) == Rendering(BuildFlowElements(nd, ex).flowNodes)

\* C25: in the layout of the store's contents, the visible children of every
\* placed node stand left to right in the order of its children_ids, and the
\* positions are the same for every other insertion order of the same
\* nodesData entries.
C25_ChildOrderFollowsChildrenIds ==
  /\ \A n \in DOMAIN PositionsNow :
       LET children == VisibleChildrenOf(n)
       IN  \A i \in 1..Len(children) : \A j \in 1..Len(children) :
             i < j => PositionsNow[children[i].id].x < PositionsNow[children[j].id].x
  /\ \A i \in 1..Len(nodesData) : \A j \in 1..Len(nodesData) :
       i < j => LayoutOf(Swap(nodesData, i, j), expandedNodes)
                  = LayoutOf(nodesData, expandedNodes)

(* ------------------------------------------------------------------ *)
(* C26  The state right after the initial load                         *)
(* ------------------------------------------------------------------ *)

\* The root of the document the backend holds.
ServerRoots == {id \in DOMAIN serverTree : serverTree[id].node_type = "root"}

\* The step in which the mind-map query completes.
LoadStep == queryStatus = "fetching" /\ queryStatus' = "success"

\* C26: the step that completes the initial load leaves exactly the root marked
\* expanded, and the flow nodes, and the nodes on the mounted canvas, are the
\* root and the root's children.
C26_AfterLoadOnlyRootExpanded ==
  [][LoadStep =>
       /\ {id \in Ids : Truthy(expandedNodes', id)} = ServerRoots
       /\ Keys(flowNodes') =
            ServerRoots \cup {id \in DOMAIN serverTree : serverTree[id].parent_id \in ServerRoots}
       /\ Mounted => Keys(nodes') = Keys(flowNodes')]_vars

\* A load has completed over a store that holds a grandchild of the root,
\* which is not rendered.
C26_Witness ==
  /\ last.op = "load"
  /\ queryStatus = "success"
  /\ \E i \in 1..Len(nodesData) : nodesData[i].depth = 2 /\ nodesData[i].id \notin FlowIds

(* ------------------------------------------------------------------ *)
(* C27  The worked example: root, leaf A, B with one unfetched child   *)
(* ------------------------------------------------------------------ *)

BandHeight == nodeHeight + verticalSpacing

\* The example's starting point: the document r -> [a, b], b -> [c], with
\* r, a, b loaded, c not fetched and only the root expanded.
ExampleStart ==
  /\ serverTree = Tree2
  /\ queryStatus = "success"
  /\ Keys(nodesData) = {"r", "a", "b"}
  /\ {id \in Ids : Truthy(expandedNodes, id)} = {"r"}

\* C27: in the example's starting state just after the load, r, a and b are
\* rendered, r at (0, 0), a left of b on the first band and r midway between
\* them; a click on b there issues the call for b; and when its response is
\* processed there, r, a, b and c are rendered, c under b on the second band
\* and a where it was.
C27_ExampleScenario ==
  [][/\ (ExampleStart' /\ LoadStep) =>
          /\ Keys(flowNodes') = {"r", "a", "b"}
          /\ Rendering(flowNodes')["r"] = [x |-> 0, y |-> 0]
          /\ Rendering(flowNodes')["a"].y = BandHeight
          /\ Rendering(flowNodes')["b"].y = BandHeight
          /\ Rendering(flowNodes')["a"].x < Rendering(flowNodes')["b"].x
          /\ 2 * Rendering(flowNodes')["r"].x
               = Rendering(flowNodes')["a"].x + Rendering(flowNodes')["b"].x
     /\ (ExampleStart /\ FlowIds = {"r", "a", "b"} /\ ClickStep("b")) =>
          /\ last'.op = "fetch"
          /\ inFlight'["b"] = inFlight["b"] + 1
     /\ (ExampleStart /\ FlowIds = {"r", "a", "b"}
           /\ last'.op = "expandSuccess" /\ last'.node = "b" /\ inFlight'["b"] < inFlight["b"]) =>
          /\ Keys(flowNodes') = {"r", "a", "b", "c"}
          /\ Rendering(flowNodes')["c"].x = Rendering(flowNodes')["b"].x
          /\ Rendering(flowNodes')["c"].y = 2 * BandHeight
          /\ Rendering(flowNodes')["a"] = Pos["a"]]_vars

\* The response for b has been processed in the example: c is rendered and
\* the rendering before it held r, a and b.
C27_Witness ==
  /\ serverTree = Tree2
  /\ last.op = "expandSuccess" /\ last.node = "b"
  /\ DOMAIN last.before = {"r", "a", "b"}
  /\ FlowIds = {"r", "a", "b", "c"}
  /\ {id \in Ids : Truthy(expandedNodes, id)} = {"r", "b"}

(* ------------------------------------------------------------------ *)
(* C29  Subtree width                                                  *)
(* ------------------------------------------------------------------ *)

\* The children of a node that are in the visible set, in children_ids order.
ChildrenInVisibleSet(id) ==
  SelectSeq(Get(nodesData, id).children_ids, LAMBDA child : child \in VisibleIds)

RECURSIVE TotalWidth(_)
TotalWidth(ids) == IF ids = <<>> THEN 0 ELSE WidthOf(Head(ids)) + TotalWidth(Tail(ids))

\* C29: for every visible node, the subtree width is nodeWidth when the node is
\* not expanded or none of its children is visible, and otherwise the larger
\* of nodeWidth and the sum of its visible children's subtree widths plus
\* horizontalSpacing between consecutive children.
C29_SubtreeWidth ==
  \A id \in VisibleIds :
    LET children == ChildrenInVisibleSet(id)
    IN  /\ (Get(nodesData, id).has_children /\ ~Truthy(expandedNodes, id)) =>
             WidthOf(id) = nodeWidth
        /\ Len(children) = 0 => WidthOf(id) = nodeWidth
        /\ Len(children) > 0 =>
             LET sum == TotalWidth(children) + horizontalSpacing * (Len(children) - 1)
             IN  WidthOf(id) = IF sum > nodeWidth THEN sum ELSE nodeWidth

\* A visible node has two visible children of which one has visible children
\* of its own, and another visible node with children is not expanded.
C29_Witness ==
  /\ \E id \in VisibleIds :
       /\ Len(ChildrenInVisibleSet(id)) = 2
       /\ \E i \in 1..2 : WidthOf(ChildrenInVisibleSet(id)[i]) > nodeWidth
  /\ \E id \in VisibleIds : Get(nodesData, id).has_children /\ ~Truthy(expandedNodes, id)

(* ------------------------------------------------------------------ *)
(* C28  DocumentUpload calls onDocumentReady once                      *)
(* ------------------------------------------------------------------ *)

\* The status DocumentUpload reads from the hook.
StatusShown == ReturnedStatus(uploadedDocument, statusData)

\* C28: a step calls onDocumentReady only when the status the component reads
\* after it is 'completed', and while the component is mounted it has called
\* onDocumentReady at most once, and exactly once when the status it reads is
\* 'completed', however many times it rendered.
C28_OnDocumentReadyOnce ==
  [][/\ readyCalls' > readyCalls => StatusShown' = "completed"
     /\ readyCalls' <= 1
     /\ (UploadMounted' /\ StatusShown' = "completed") => readyCalls' = 1]_vars

\* The component has rendered again after it read 'completed' and called
\* onDocumentReady.
C28_Witness ==
  /\ UploadMounted
  /\ StatusShown = "completed"
  /\ renders = MaxRenders
  /\ readyCalls = 1

(* ------------------------------------------------------------------ *)
(* C30  useDocumentUpload sets the document once per upload            *)
(* ------------------------------------------------------------------ *)

\* C30: setDocument is called at most once after each successful upload, only
\* when the status query of the uploaded document holds 'completed', and for
\* every uploaded document, the first and the later ones, whose status query
\* holds 'completed' it has been called with that document.
C30_SetDocumentOncePerUpload ==
  [][/\ setCalls' <= 1
     /\ (setCalls' > setCalls \/ document' # document) =>
          \/ document' = NoDocument
          \/ /\ QueryData(uploadedDocument', statusData') = "completed"
             /\ document' = [id |-> uploadedDocument'.id, status |-> "completed"]
     /\ (UploadMounted' /\ QueryData(uploadedDocument', statusData') = "completed") =>
          /\ setCalls' = 1
          /\ document' = [id |-> uploadedDocument'.id, status |-> "completed"]]_vars

\* The second upload has completed in the same mount after the first one had,
\* and the store holds the second document.
C30_Witness ==
  /\ UploadMounted
  /\ uploadedDocument.id = 2
  /\ statusData[1] = "completed"
  /\ statusData[2] = "completed"
  /\ document.id = 2
  /\ setCalls = 1

(* ------------------------------------------------------------------ *)
(* C31  Nodes of one depth band keep their distance                    *)
(* ------------------------------------------------------------------ *)

Distance(x, y) == IF x >= y THEN x - y ELSE y - x

\* C31: any two distinct rendered nodes at the same tree depth have x
\* coordinates at least nodeWidth + horizontalSpacing apart.
C31_SameBandNodesApart ==
  \A n \in FlowIds : \A m \in FlowIds \ {n} :
    (HasKey(nodesData, n) /\ HasKey(nodesData, m) /\ DepthOf(n) >= 0 /\ DepthOf(n) = DepthOf(m)) =>
      Distance(Pos[n].x, Pos[m].x) >= nodeWidth + horizontalSpacing

(* ------------------------------------------------------------------ *)
(* C32  The rendered graph is one tree                                 *)
(* ------------------------------------------------------------------ *)

\* The edges that end at a rendered node.
IncomingEdges(id) == {i \in 1..Len(flowEdges) : flowEdges[i].target = id}

\* C32: whenever something is rendered, every rendered node that is not a root
\* has exactly one incoming edge, and there is one edge less than there are
\* rendered nodes.
C32_RenderedGraphIsOneTree ==
  Len(flowNodes) > 0 =>
    /\ \A i \in 1..Len(flowNodes) :
         flowNodes[i].data.node_type # "root" =>
           Cardinality(IncomingEdges(flowNodes[i].id)) = 1
    /\ Len(flowEdges) = Len(flowNodes) - 1

(* ------------------------------------------------------------------ *)
(* C33  A response that arrives after the reset                        *)
(* ------------------------------------------------------------------ *)

\* The store as reset() leaves it.
StoreIsEmpty(st) ==
  /\ st.nodesData = <<>>
  /\ st.expandedNodes = EmptyRec
  /\ st.flowNodes = <<>>
  /\ st.flowEdges = <<>>

\* The step in which the response of an expandNode call is processed.
SuccessStep == last'.op = "expandSuccess" /\ inFlight' # inFlight

\* C33: in the document list with the store empty after reset(), the response
\* of an expandNode call leaves nodesData, expandedNodes, flowNodes and
\* flowEdges empty.
C33_LateResponseLeavesStoreEmpty ==
  [][(view = "list" /\ StoreIsEmpty(Store) /\ SuccessStep) => StoreIsEmpty(Store')]_vars

(* ------------------------------------------------------------------ *)
(* C34  An opened document is in the store                             *)
(* ------------------------------------------------------------------ *)

\* C34: while the mind-map view is open and the query reports neither loading
\* nor error, nodesData holds the root of the document and flowNodes is not
\* empty.
C34_OpenedDocumentIsLoaded ==
  (Mounted /\ queryStatus = "success") =>
    /\ \A root \in ServerRoots : HasKey(nodesData, root)
    /\ Len(flowNodes) > 0

(* ------------------------------------------------------------------ *)
(* C35  nodesData only grows between resets                            *)
(* ------------------------------------------------------------------ *)

\* The step in which handleShowList resets the store.
ResetStep == view = "mindmap" /\ view' = "list"

\* C35: every step other than a reset keeps every node id that is in
\* nodesData.
C35_NodesDataOnlyGrows ==
  [][~ResetStep => Keys(nodesData) \subseteq Keys(nodesData')]_vars

\* A node has been collapsed with its children in the store, after the
\* backend removed a node the store still holds.
C35_Witness ==
  /\ last.op = "collapse"
  /\ \E i \in 1..Len(nodesData) : nodesData[i].parent_id = last.node
  /\ \E i \in 1..Len(nodesData) : nodesData[i].id \notin DOMAIN serverTree

(* ------------------------------------------------------------------ *)
(* C36  A node that has children but lists none                        *)
(* ------------------------------------------------------------------ *)

\* A collapsed node of the store with has_children = true and no children_ids.
CollapsedStub(n) ==
  /\ HasKey(nodesData, n)
  /\ Get(nodesData, n).has_children
  /\ Get(nodesData, n).children_ids = <<>>
  /\ ~Truthy(expandedNodes, n)

\* C36: a click on a collapsed node with has_children = true and an empty
\* children_ids list marks the node expanded, issues no expandNode call and
\* leaves the rendered nodes and their positions as they were.
C36_StubExpandsWithoutFetch ==
  [][\A n \in DocIds :
       (CollapsedStub(n) /\ ClickStep(n)) =>
         /\ last'.op = "expand"
         /\ Truthy(expandedNodes', n)
         /\ inFlight' = inFlight
         /\ Rendering(flowNodes') = Rendering(flowNodes)]_vars

\* Such a node has just been expanded by a click while another node's children
\* are rendered.
C36_Witness ==
  /\ last.op = "expand"
  /\ HasKey(nodesData, last.node)
  /\ Get(nodesData, last.node).has_children
  /\ Get(nodesData, last.node).children_ids = <<>>
  /\ Truthy(expandedNodes, last.node)
  /\ Len(flowNodes) > 3

(* ------------------------------------------------------------------ *)
(* C37  No node loads forever                                          *)
(* ------------------------------------------------------------------ *)

\* C37: when every expandNode call issued eventually settles, every state in
\* which loadingNodes[n] is true is followed by a state in which it is not.
C37_LoadingEventuallyCleared ==
  \A n \in Ids : Truthy(loadingNodes, n) ~> ~Truthy(loadingNodes, n)

\* A call has settled and cleared the loading entry it had set.
C37_Witness ==
  /\ last.op \in {"expandSuccess", "expandError"}
  /\ last.node \in DOMAIN loadingNodes
  /\ ~loadingNodes[last.node]
  /\ inFlight[last.node] = 0

====
